---- MODULE Spec2Model ----
(***************************************************************************)
(* A model of feedmix's FeedMixer (src/src/feedmix/feedmixer.py): the      *)
(* lazily triggered fetch / parse / truncate / merge pipeline, the         *)
(* configuration setters that invalidate its result, and the thread pool   *)
(* that runs the fetches.                                                  *)
(*                                                                         *)
(* Python values are modelled as follows.  A dict is a function whose      *)
(* DOMAIN is the set of keys present; None is the string NoneVal.  The     *)
(* strings that the merge compares (published, updated) are natural        *)
(* numbers ordered as the strings are, with EmptyStr the empty string      *)
(* (the least string, and the only falsy one).  The network and the        *)
(* feedparser library are the fixed tables SessGet and FeedparserParse.    *)
(*                                                                         *)
(* Spec is the FeedMixer over the six URLs of URLS.  The other             *)
(* specifications look at one part each: SpecTwoUrls a caller with two     *)
(* URLs, SpecAnyThreads a max_threads of 0, SpecPodcast feeds with         *)
(* enclosures, SpecCached the contents of the parse cache during runs,     *)
(* SpecLru the parse cache alone, SpecMeta extract_meta alone.             *)
(***************************************************************************)
EXTENDS Integers, Sequences, FiniteSets, TLC

\* ------------------------------------------------------------------ bounds

\* Texts looked up again once the parse cache is full: the MaxOld first ones.
MaxOld == 3
\* Texts first looked up once the parse cache is full.
MaxNew == 2

\* Longest list of feeds assigned; max_feeds ranges over 1..MaxFeeds, so
\* that a smaller max_feeds truncates a longer list.
MaxFeeds == 2
\* Largest num_keep; num_keep ranges over 0..MaxKeep.
MaxKeep == 2
\* Largest max_threads; max_threads ranges over 1..MaxThreads.
MaxThreads == 2

\* ------------------------------------------------------- values and world

\* Python's None.
NoneVal == "<None>"
\* The empty string, as a published/updated value.
EmptyStr == 0

\* key in d
Has(d, k) == k \in DOMAIN d
\* d.get(k)
Get(d, k) == IF Has(d, k) THEN d[k] ELSE NoneVal
\* d[k] = v
DictSet(d, k, v) == [x \in DOMAIN d \cup {k} |-> IF x = k THEN v ELSE d[x]]
\* {}
EmptyDict == [x \in {} |-> NoneVal]

\* The URLs a list of feeds is drawn from.
URLS == {"a", "b", "empty", "malformed", "down", "notitle"}

\* sess.get(url) followed by raise_for_status(): a response with its text,
\* or a RequestException.
SessGet(url) ==
    IF url = "down" THEN [ok |-> FALSE, exc |-> "RequestException"]
    ELSE [ok |-> TRUE, text |-> url]

\* feedparser.parse(text): the parsed feed of each text the network serves.
FeedparserParse(text) ==
    CASE text = "a" ->
           [bozo |-> FALSE,
            feed |-> [link |-> "http://a", title |-> "A",
                      author_detail |-> [name |-> "Ann", email |-> "ann@a"]],
            entries |-> <<
              [id |-> "a1", title |-> "a1", link |-> "http://a/1",
               published |-> 3, published_parsed |-> 3,
               summary |-> "a1-summary",
               content |-> <<[value |-> "a1-content"], [value |-> "a1-more"]>>,
               author_detail |-> [name |-> "Al", href |-> "http://al"]],
              [id |-> "a2", title |-> "a2", link |-> "http://a/2",
               updated |-> 1, updated_parsed |-> 1,
               content |-> <<[value |-> "a2-content"]>>],
              [id |-> "a3", link |-> "http://a/3"] >>]
      [] text = "b" ->
           [bozo |-> TRUE,
            feed |-> [link |-> "http://b", title |-> "B"],
            entries |-> <<
              [id |-> "b1", published |-> EmptyStr,
               updated |-> 3, updated_parsed |-> 3,
               summary |-> "b1-summary"] >>]
      [] text = "empty" ->
           [bozo |-> FALSE,
            feed |-> [link |-> "http://empty", title |-> "Empty"],
            entries |-> << >>]
      [] text = "malformed" ->
           [bozo |-> TRUE, feed |-> EmptyDict, entries |-> << >>]
      [] text = "notitle" ->
           [bozo |-> TRUE,
            feed |-> [link |-> "http://notitle"],
            entries |-> <<
              [id |-> "t1", updated |-> 1, updated_parsed |-> 1] >>]
      [] text = "podcast" ->
           [bozo |-> FALSE,
            feed |-> [link |-> "http://podcast", title |-> "Podcast"],
            entries |-> <<
              [id |-> "p1", published |-> 2, published_parsed |-> 2,
               enclosures |-> <<[href |-> "http://podcast/1.mp3",
                                 length |-> "10", type |-> "audio/mpeg"]>>],
              [id |-> "p2", updated |-> 1, updated_parsed |-> 1,
               enclosures |-> <<[href |-> "http://podcast/2.mp3",
                                 type |-> "audio/mpeg"]>>] >>]
      [] OTHER ->
           [bozo |-> FALSE,
            feed |-> [link |-> text, title |-> text],
            entries |-> << >>]

\* cache_parser(text): the memoised parser returns what the parser returns.
cache_parser(text) == FeedparserParse(text)

\* Line 74: maxsize of the lru_cache
CacheMaxSize == 128

\* The lru_cache as a sequence of [text, feed] records, the least recently
\* used first: the position of text in it, 0 when it is not held.
CacheIndex(c, text) ==
    IF \E i \in 1..Len(c) : c[i].text = text
    THEN CHOOSE i \in 1..Len(c) : c[i].text = text
    ELSE 0

\* c without its i-th record
Without(c, i) == SubSeq(c, 1, i - 1) \o SubSeq(c, i + 1, Len(c))

\* LruLookup had a hit left the record where it is (first in, first out).
LruLookupFifo(c, text) ==
    LET i == CacheIndex(c, text) IN
    IF i > 0
    THEN [feed |-> c[i].feed, cache |-> c, calls |-> 0]
    ELSE LET f == FeedparserParse(text)
             room == IF Len(c) >= CacheMaxSize THEN Tail(c) ELSE c
         IN [feed |-> f, cache |-> Append(room, [text |-> text, feed |-> f]), calls |-> 1]

\* Lines 74-76: a call of the lru_cache wrapper with cache c.  A hit returns
\* the stored feed and makes its record the most recently used; a miss
\* calls feedparser.parse, drops the least recently used record when the
\* cache is full, and stores the result as the most recently used.
LruLookup(c, text) ==
    LET i == CacheIndex(c, text) IN
    IF i > 0
    THEN [feed |-> c[i].feed, cache |-> Append(Without(c, i), c[i]), calls |-> 0]
    ELSE LET f == FeedparserParse(text)
             room == IF Len(c) >= CacheMaxSize THEN Tail(c) ELSE c
         IN [feed |-> f, cache |-> Append(room, [text |-> text, feed |-> f]), calls |-> 1]

\* The texts looked up, the least recently looked up first, after a lookup
\* of text.
Touch(r, text) == SelectSeq(r, LAMBDA x : x # text) \o <<text>>

\* ------------------------------------------------------- __fetch_entries

\* s[0:k] for k >= 0
Slice(s, k) == SubSeq(s, 1, IF k < Len(s) THEN k ELSE Len(s))

\* Lines 241-244: the entries of parsed feed f that are kept.
Newest(f, k) == IF k < 1 THEN f.entries ELSE Slice(f.entries, k)

\* Annotate had the feed's author detail replaced the entry's own.
AnnotateFeedAuthor(e, feed) ==
    LET e1 == DictSet(e, "feed_link", feed.link)
        e2 == DictSet(e1, "feed_title", feed.title)
    IN IF Has(feed, "author_detail")
       THEN DictSet(e2, "author_detail", feed.author_detail)
       ELSE e2

\* Lines 247-254, for one entry e of a feed with metadata feed (which has
\* link and title): the entry as it is after the loop body.
Annotate(e, feed) ==
    LET e1 == DictSet(e, "feed_link", feed.link)
        e2 == DictSet(e1, "feed_title", feed.title)
    IN IF ~Has(e2, "author_detail") /\ Has(feed, "author_detail")
       THEN DictSet(e2, "author_detail", feed.author_detail)
       ELSE e2

\* Lines 233-234: a feed with no entries and the bozo flag is a parse error.
ParseErr(f) == Len(f.entries) = 0 /\ f.bozo

\* Lines 225-261, the body of the as_completed loop for the future of url:
\* the exception caught at line 257, or the entries added at line 256.
\* f.feed.link and f.feed.title raise AttributeError when the feed has no
\* such key; they are evaluated once the loop at line 246 has an entry.
TryBody(url, k) ==
    LET r == SessGet(url) IN
    IF ~r.ok THEN [raised |-> TRUE, exc |-> r.exc]
    ELSE LET f == cache_parser(r.text) IN
         IF ParseErr(f) THEN [raised |-> TRUE, exc |-> "ParseError"]
         ELSE LET newest == Newest(f, k) IN
              IF Len(newest) > 0 /\ ~(Has(f.feed, "link") /\ Has(f.feed, "title"))
              THEN [raised |-> TRUE, exc |-> "AttributeError"]
              ELSE [raised |-> FALSE,
                    newest |-> [j \in 1..Len(newest) |-> Annotate(newest[j], f.feed)]]

\* LoopBody had the exception of one source dropped what was collected.
LoopBodyAborting(parsed, errors, url, k) ==
    LET r == TryBody(url, k) IN
    IF r.raised
    THEN [parsed |-> << >>, errors |-> DictSet(errors, url, r.exc)]
    ELSE [parsed |-> parsed \o r.newest, errors |-> errors]

\* Lines 223-261: parsed_entries and self._error_urls after the loop body
\* has run for the future of url.
LoopBody(parsed, errors, url, k) ==
    LET r == TryBody(url, k) IN
    IF r.raised
    THEN [parsed |-> parsed, errors |-> DictSet(errors, url, r.exc)]
    ELSE [parsed |-> parsed \o r.newest, errors |-> errors]

\* Lines 246-254 on the feed object f that cache_parser returned, which is
\* the object the lru_cache holds: the loop assigns into the first n entries
\* of f.  When the feed has a link and no title, line 248 raises after line
\* 247 has assigned feed_link in the first entry.
AnnotatedInPlace(f, n) ==
    IF n = 0 \/ ~Has(f.feed, "link") THEN f
    ELSE IF ~Has(f.feed, "title")
    THEN [f EXCEPT !.entries[1] = DictSet(@, "feed_link", f.feed.link)]
    ELSE [f EXCEPT !.entries =
            [j \in 1..Len(f.entries) |->
                IF j <= n THEN Annotate(f.entries[j], f.feed) ELSE f.entries[j]]]

\* c with the feed of its most recently used record replaced by f
WithLastFeed(c, f) == [c EXCEPT ![Len(c)].feed = f]

\* Lines 225-261 with the lru_cache c: as TryBody, with the cache as the
\* body leaves it, whether cache_parser was called, and how many times it
\* called the parser.
TryBodyCached(c, url, k) ==
    LET r == SessGet(url) IN
    IF ~r.ok THEN [raised |-> TRUE, exc |-> r.exc, cache |-> c, looked |-> FALSE, calls |-> 0]
    ELSE LET l == LruLookup(c, r.text)
             f == l.feed
         IN
         IF ParseErr(f)
         THEN [raised |-> TRUE, exc |-> "ParseError", cache |-> l.cache,
               looked |-> TRUE, calls |-> l.calls]
         ELSE LET n == Len(Newest(f, k))
                  g == AnnotatedInPlace(f, n)
              IN
              IF n > 0 /\ ~(Has(f.feed, "link") /\ Has(f.feed, "title"))
              THEN [raised |-> TRUE, exc |-> "AttributeError",
                    cache |-> WithLastFeed(l.cache, g), looked |-> TRUE, calls |-> l.calls]
              ELSE [raised |-> FALSE, newest |-> Newest(g, k),
                    cache |-> WithLastFeed(l.cache, g), looked |-> TRUE, calls |-> l.calls]

\* Python truthiness of a string-or-None and of a published/updated value.
Truthy(v) == v # NoneVal /\ v # ""
TruthyStamp(e, k) == Has(e, k) /\ e[k] # EmptyStr

\* SortKey had `or` been a test for presence (published ?? updated ?? "").
SortKeyByPresence(e) ==
    IF Has(e, "published") THEN e.published
    ELSE IF Has(e, "updated") THEN e.updated
    ELSE EmptyStr

\* Line 264: e.get('published') or e.get('updated') or ""
SortKey(e) ==
    IF TruthyStamp(e, "published") THEN e.published
    ELSE IF TruthyStamp(e, "updated") THEN e.updated
    ELSE EmptyStr

\* Lines 264-265: list.sort(key, reverse=True) is stable: e is placed after
\* every element whose key is not smaller.
RECURSIVE InsertDesc(_, _)
InsertDesc(s, e) ==
    IF s = << >> THEN <<e>>
    ELSE IF SortKey(Head(s)) >= SortKey(e) THEN <<Head(s)>> \o InsertDesc(Tail(s), e)
    ELSE <<e>> \o s

RECURSIVE SortEntries(_)
SortEntries(s) ==
    IF s = << >> THEN << >>
    ELSE InsertDesc(SortEntries(SubSeq(s, 1, Len(s) - 1)), s[Len(s)])

\* ----------------------------------------------------------- extract_meta

\* x or y, for strings and None
Or(x, y) == IF Truthy(x) THEN x ELSE y

\* Description had it used the last content block.
DescriptionAllBlocks(e, prefer_summary) ==
    LET summary == Get(e, "summary")
        content == IF Has(e, "content") /\ Len(e.content) > 0
                   THEN Get(e.content[Len(e.content)], "value") ELSE NoneVal
    IN IF prefer_summary THEN Or(summary, content) ELSE Or(content, summary)

\* Lines 291-301
Description(e, prefer_summary) ==
    LET summary == Get(e, "summary")
        content == IF Has(e, "content") /\ Len(e.content) > 0
                   THEN Get(e.content[1], "value") ELSE NoneVal
    IN IF prefer_summary THEN Or(summary, content) ELSE Or(content, summary)

\* Line 335: feedgenerator.Enclosure(enc.href, enc.length, enc.type)
Enclosure(enc) == [url |-> enc.href, length |-> enc.length, mime_type |-> enc.type]

\* Lines 285-343 for one entry
Metadata(e, prefer_summary) ==
    [title |-> IF Has(e, "title") THEN e.title ELSE "",
     link |-> IF Has(e, "link") THEN e.link ELSE "",
     description |-> Description(e, prefer_summary),
     feed_link |-> e.feed_link,
     feed_title |-> e.feed_title,
     comments |-> Get(e, "comments"),
     unique_id |-> Get(e, "id"),
     item_copyright |-> Get(e, "license")]
    @@ (IF Has(e, "author_detail")
        THEN [author_email |-> Get(e.author_detail, "email"),
              author_name |-> Get(e.author_detail, "name"),
              author_link |-> Get(e.author_detail, "href")]
        ELSE EmptyDict)
    @@ (IF TruthyStamp(e, "published_parsed")
        THEN [pubdate |-> e.published_parsed] ELSE EmptyDict)
    @@ (IF TruthyStamp(e, "updated_parsed")
        THEN [updateddate |-> e.updated_parsed] ELSE EmptyDict)
    @@ (IF Has(e, "tags")
        THEN [categories |-> [j \in 1..Len(e.tags) |-> Get(e.tags[j], "term")]]
        ELSE EmptyDict)
    @@ (IF Has(e, "enclosures")
        THEN [enclosures |-> [j \in 1..Len(e.enclosures) |-> Enclosure(e.enclosures[j])]]
        ELSE EmptyDict)
    @@ (IF Has(e, "enclosures") /\ Len(e.enclosures) > 0
        THEN [enclosure |-> Enclosure(e.enclosures[1])]
        ELSE EmptyDict)

\* Lines 332-336: enc.href, enc.length and enc.type raise AttributeError when
\* the enclosure has no such key.
MetadataRaises(e) ==
    /\ Has(e, "enclosures")
    /\ \E j \in 1..Len(e.enclosures) :
           ~(Has(e.enclosures[j], "href") /\ Has(e.enclosures[j], "length")
             /\ Has(e.enclosures[j], "type"))

\* Lines 283-344: extract_meta raises when the metadata of an entry does.
ExtractMetaRaises(parsed) == \E j \in 1..Len(parsed) : MetadataRaises(parsed[j])

\* Lines 283-344
extract_meta(parsed, prefer_summary) ==
    [j \in 1..Len(parsed) |-> Metadata(parsed[j], prefer_summary)]

\* Lines 208-269: what __fetch_entries stores when as_completed yields the
\* futures of feeds in the order order[1], order[2], ...
RECURSIVE LoopOver(_, _, _, _)
LoopOver(feeds, order, n, k) ==
    IF n = 0 THEN [parsed |-> << >>, errors |-> EmptyDict]
    ELSE LET before == LoopOver(feeds, order, n - 1, k)
         IN LoopBody(before.parsed, before.errors, feeds[order[n]], k)

FetchEntries(feeds, order, k, summary_first) ==
    LET after == LoopOver(feeds, order, Len(feeds), k)
    IN [mixed |-> extract_meta(SortEntries(after.parsed), summary_first),
        errors |-> after.errors]

\* Lines 346-354 and writeString: the document of generator class gen_cls
\* with one item per mixed entry.
GenerateFeed(gen_cls, entries) == [format |-> gen_cls, items |-> entries]

\* ------------------------------------------------------------------ state

VARIABLES
    _feeds,          \* self._feeds: the list of URLs
    _num_keep,       \* self._num_keep
    max_threads,     \* self.max_threads
    max_feeds,       \* self.max_feeds
    prefer_summary,  \* self.prefer_summary
    _mixed_entries,  \* self._mixed_entries: the stored merged sequence
    _error_urls,     \* self._error_urls: URL -> exception
    pc,              \* "idle", or "fetching" inside __fetch_entries
    call,            \* the operation that is running __fetch_entries
    parsed_entries,  \* the local list of __fetch_entries
    queue,           \* the pool's work queue: futures (positions of _feeds) not started
    inflight,        \* futures whose fetch a worker thread is running
    finished,        \* futures that are done and not yet yielded by as_completed
    ret,             \* the operation that returned last, and its value
    stored,          \* history: "none" until a run completes, then "current",
                     \* and "stale" once feeds or num_keep is assigned after a run
    urls,            \* the URLs the caller draws its lists of feeds from
    requests,        \* history: URL -> number of sess.get calls made for it by
                     \* the run in progress
    parse_cache,     \* the lru_cache of cache_parser: <<text, feed>> pairs, the
                     \* least recently used first
    parse_calls,     \* calls of feedparser.parse made by the last cache_parser call
    recency          \* history: the texts looked up, the least recently looked
                     \* up first

vars == <<_feeds, _num_keep, max_threads, max_feeds, prefer_summary,
          _mixed_entries, _error_urls, pc, call, parsed_entries, queue,
          inflight, finished, ret, stored, urls, requests, parse_cache,
          parse_calls, recency>>

config == <<max_threads, max_feeds, prefer_summary, urls>>
cache == <<parse_cache, parse_calls, recency>>
pool == <<queue, inflight, finished>>

\* Lists of URLs of length at most n.
UrlLists(n) == UNION {[1..k -> urls] : k \in 0..n}

\* The lists a caller passes as feeds.
FeedLists == UrlLists(MaxFeeds)
NumKeeps == 0..MaxKeep

\* The operations that read the merged sequence.
ReadOps == {"mixed_entries", "atom_feed", "rss_feed", "json_feed"}

NoRet == [op |-> "none"]

\* What operation op returns given the stored merged sequence.
Returned(op, entries) ==
    IF op = "mixed_entries" THEN [op |-> op, val |-> entries]
    ELSE [op |-> op, val |-> GenerateFeed(op, entries)]

\* No request made.
NoRequests == [u \in {} |-> 0]

\* The module as imported: nothing has been parsed, the lru_cache is empty.
Imported ==
    /\ parse_cache = << >>
    /\ parse_calls = 0
    /\ recency = << >>

\* Lines 86-127: the state after __init__ for a caller whose URLs are world
\* and whose max_threads is one of threads, for every list of feeds,
\* num_keep and max_feeds within the bounds, and the default prefer_summary.
\* __init__ stores its arguments as they are given.
Construct(world, threads) ==
    /\ urls = world
    /\ max_feeds \in 1..MaxFeeds
    /\ \E feeds \in FeedLists : _feeds = Slice(feeds, max_feeds)
    /\ _num_keep \in NumKeeps
    /\ max_threads \in threads
    /\ prefer_summary = TRUE
    /\ _mixed_entries = << >>
    /\ _error_urls = EmptyDict
    /\ pc = "idle"
    /\ call = "none"
    /\ parsed_entries = << >>
    /\ queue = << >>
    /\ inflight = {}
    /\ finished = {}
    /\ ret = NoRet
    /\ stored = "none"
    /\ requests = NoRequests

\* Lines 86-127: a FeedMixer constructed with a valid max_threads over the
\* URLs of the world.
Init == Imported /\ Construct(URLS, 1..MaxThreads)

\* An operation that raises exc to its caller.
Raised(op, exc) == [op |-> op, exc |-> exc]

\* Lines 208-221: __fetch_entries up to the submission of one future per
\* element of self.feeds.  ThreadPoolExecutor(max_workers) raises ValueError
\* when max_workers <= 0; nothing catches it, so the read that called
\* __fetch_entries raises it, after line 209 has emptied the error map.
StartFetch(op) ==
    /\ _error_urls' = EmptyDict
    /\ IF max_threads <= 0
       THEN /\ ret' = Raised(op, "ValueError")
            /\ UNCHANGED <<pc, call, parsed_entries, queue, requests>>
       ELSE /\ pc' = "fetching"
            /\ call' = op
            /\ parsed_entries' = << >>
            /\ queue' = [i \in 1..Len(_feeds) |-> i]
            /\ requests' = NoRequests
            /\ ret' = NoRet
    /\ UNCHANGED <<_feeds, _num_keep, config, cache, _mixed_entries, inflight, finished, stored>>

\* Lines 142-151 (and 346-354 for the three generators): a read of
\* mixed_entries by operation op.
ReadMixed(op) ==
    /\ pc = "idle"
    /\ IF Len(_mixed_entries) < 1
       THEN StartFetch(op)
       ELSE /\ ret' = Returned(op, _mixed_entries)
            /\ UNCHANGED <<_feeds, _num_keep, config, cache, _mixed_entries, _error_urls,
                           pc, call, parsed_entries, pool, stored, requests>>

mixed_entries == ReadMixed("mixed_entries")
atom_feed == ReadMixed("atom_feed")
rss_feed == ReadMixed("rss_feed")
json_feed == ReadMixed("json_feed")

\* Lines 211-215: fetch(url) calls sess.get(url) once.
Requested(log, url) ==
    [u \in DOMAIN log \cup {url} |->
        (IF u \in DOMAIN log THEN log[u] ELSE 0) + (IF u = url THEN 1 ELSE 0)]

\* WorkerStart had fetch requested a URL again after a failed request.
WorkerStartRetrying ==
    /\ pc = "fetching"
    /\ queue # << >>
    /\ Cardinality(inflight) < max_threads
    /\ inflight' = inflight \cup {Head(queue)}
    /\ queue' = Tail(queue)
    /\ requests' = IF SessGet(_feeds[Head(queue)]).ok
                   THEN Requested(requests, _feeds[Head(queue)])
                   ELSE Requested(Requested(requests, _feeds[Head(queue)]),
                                  _feeds[Head(queue)])
    /\ UNCHANGED <<_feeds, _num_keep, config, cache, _mixed_entries, _error_urls, pc,
                   call, parsed_entries, finished, ret, stored>>

\* WorkerStart had the pool one thread per future.
WorkerStartUnbounded ==
    /\ pc = "fetching"
    /\ queue # << >>
    /\ inflight' = inflight \cup {Head(queue)}
    /\ queue' = Tail(queue)
    /\ requests' = Requested(requests, _feeds[Head(queue)])
    /\ UNCHANGED <<_feeds, _num_keep, config, cache, _mixed_entries, _error_urls, pc,
                   call, parsed_entries, finished, ret, stored>>

\* Line 219: a worker thread of the pool takes the next future from the
\* work queue; the pool has at most max_workers threads.
WorkerStart ==
    /\ pc = "fetching"
    /\ queue # << >>
    /\ Cardinality(inflight) < max_threads
    /\ inflight' = inflight \cup {Head(queue)}
    /\ queue' = Tail(queue)
    /\ requests' = Requested(requests, _feeds[Head(queue)])
    /\ UNCHANGED <<_feeds, _num_keep, config, cache, _mixed_entries, _error_urls, pc,
                   call, parsed_entries, finished, ret, stored>>

\* Lines 211-217: fetch(url) returns or raises in its worker thread.
WorkerFinish(i) ==
    /\ i \in inflight
    /\ inflight' = inflight \ {i}
    /\ finished' = finished \cup {i}
    /\ UNCHANGED <<_feeds, _num_keep, config, cache, _mixed_entries, _error_urls, pc,
                   call, parsed_entries, queue, ret, stored, requests>>

\* Lines 222-261: as_completed yields a finished future and the loop body
\* runs for it.  Futures that finished before the loop asks for the next
\* one are yielded in no particular order.
ProcessFuture(i) ==
    /\ i \in finished
    /\ finished' = finished \ {i}
    /\ LET after == LoopBody(parsed_entries, _error_urls, _feeds[i], _num_keep)
       IN /\ parsed_entries' = after.parsed
          /\ _error_urls' = after.errors
    /\ UNCHANGED <<_feeds, _num_keep, config, cache, _mixed_entries, pc, call, queue,
                   inflight, ret, stored, requests>>

\* Lines 222-261 with the parse cache: as ProcessFuture, and the lru_cache
\* as the loop body leaves it.
ProcessFutureCached(i) ==
    /\ i \in finished
    /\ finished' = finished \ {i}
    /\ LET r == TryBodyCached(parse_cache, _feeds[i], _num_keep)
       IN /\ parsed_entries' = IF r.raised THEN parsed_entries
                                ELSE parsed_entries \o r.newest
          /\ _error_urls' = IF r.raised THEN DictSet(_error_urls, _feeds[i], r.exc)
                             ELSE _error_urls
          /\ parse_cache' = r.cache
          /\ parse_calls' = IF r.looked THEN r.calls ELSE parse_calls
          /\ recency' = IF r.looked THEN Touch(recency, SessGet(_feeds[i]).text)
                         ELSE recency
    /\ UNCHANGED <<_feeds, _num_keep, config, _mixed_entries, pc, call, queue,
                   inflight, ret, stored, requests>>

\* Lines 263-269, and the return to the caller: every future has been
\* yielded, the pool is shut down.  extract_meta is called outside the try
\* block: what it raises, the read that called __fetch_entries raises, and
\* line 268 assigns nothing.
FinishFetch ==
    /\ pc = "fetching"
    /\ queue = << >> /\ inflight = {} /\ finished = {}
    /\ IF ExtractMetaRaises(SortEntries(parsed_entries))
       THEN /\ ret' = Raised(call, "AttributeError")
            /\ UNCHANGED <<_mixed_entries, stored>>
       ELSE /\ _mixed_entries' = extract_meta(SortEntries(parsed_entries), prefer_summary)
            /\ ret' = Returned(call, _mixed_entries')
            /\ stored' = "current"
    /\ pc' = "idle"
    /\ call' = "none"
    /\ parsed_entries' = << >>
    /\ requests' = NoRequests
    /\ UNCHANGED <<_feeds, _num_keep, config, cache, _error_urls, pool>>

\* error_urls had it triggered the fetch as mixed_entries does.
error_urls_fetching ==
    /\ pc = "idle"
    /\ IF Len(_mixed_entries) < 1
       THEN StartFetch("error_urls")
       ELSE /\ ret' = [op |-> "error_urls", val |-> _error_urls]
            /\ UNCHANGED <<_feeds, _num_keep, config, cache, _mixed_entries, _error_urls,
                           pc, call, parsed_entries, pool, stored, requests>>

\* Lines 153-160
error_urls ==
    /\ pc = "idle"
    /\ ret' = [op |-> "error_urls", val |-> _error_urls]
    /\ UNCHANGED <<_feeds, _num_keep, config, cache, _mixed_entries, _error_urls, pc,
                   call, parsed_entries, pool, stored, requests>>

\* FeedsSetter had it stored the whole list.
FeedsSetterWholeList(value) ==
    /\ _feeds' = value
    /\ _mixed_entries' = << >>

\* FeedsSetter had it kept the stored merged sequence.
FeedsSetterKeepsResult(value) ==
    /\ _feeds' = Slice(value, max_feeds)
    /\ UNCHANGED _mixed_entries

\* Lines 169-175: the effect of the feeds setter on the object
FeedsSetter(value) ==
    /\ _feeds' = Slice(value, max_feeds)
    /\ _mixed_entries' = << >>

\* SetFeeds had the assignment fetched the new feeds at once.
SetFeedsFetching(value) ==
    /\ pc = "idle"
    /\ FeedsSetter(value)
    /\ pc' = "fetching"
    /\ call' = "feeds"
    /\ parsed_entries' = << >>
    /\ _error_urls' = EmptyDict
    /\ queue' = [i \in 1..Len(_feeds') |-> i]
    /\ requests' = NoRequests
    /\ ret' = NoRet
    /\ stored' = (IF stored = "none" THEN "none" ELSE "stale")
    /\ UNCHANGED <<_num_keep, config, cache, inflight, finished>>

\* Lines 169-175: feeds = value
SetFeeds(value) ==
    /\ pc = "idle"
    /\ FeedsSetter(value)
    /\ ret' = NoRet
    /\ stored' = (IF stored = "none" THEN "none" ELSE "stale")
    /\ UNCHANGED <<_num_keep, config, cache, _error_urls, pc, call, parsed_entries,
                   pool, requests>>

\* Lines 137-140: num_keep = value
SetNumKeep(value) ==
    /\ pc = "idle"
    /\ _num_keep' = value
    /\ FeedsSetter(_feeds)
    /\ ret' = NoRet
    /\ stored' = (IF stored = "none" THEN "none" ELSE "stale")
    /\ UNCHANGED <<config, cache, _error_urls, pc, call, parsed_entries, pool, requests>>

Next ==
    \/ mixed_entries
    \/ atom_feed
    \/ rss_feed
    \/ json_feed
    \/ error_urls
    \/ \E value \in FeedLists : SetFeeds(value)
    \/ \E value \in NumKeeps : SetNumKeep(value)
    \/ WorkerStart
    \/ \E i \in inflight : WorkerFinish(i)
    \/ \E i \in finished : ProcessFuture(i)
    \/ FinishFetch

Spec == Init /\ [][Next]_vars

\* Lines 72-76: a call cache_parser(text) by any caller.
CacheParser(text) ==
    /\ LET r == LruLookup(parse_cache, text)
       IN /\ parse_cache' = r.cache
          /\ parse_calls' = r.calls
          /\ ret' = [op |-> "cache_parser", val |-> r.feed]
    /\ recency' = Touch(recency, text)
    /\ UNCHANGED <<_feeds, _num_keep, config, _mixed_entries, _error_urls, pc, call,
                   parsed_entries, pool, stored, requests>>

\* The text of the n-th document.
TextOf(n) == ToString(n)

\* The texts a caller parses: CacheMaxSize different texts one after the
\* other, then any of the first MaxOld of them and of MaxNew further ones.
LookupTexts ==
    IF Len(recency) < CacheMaxSize THEN {TextOf(Len(recency) + 1)}
    ELSE {TextOf(n) : n \in 1..MaxOld} \cup {TextOf(CacheMaxSize + n) : n \in 1..MaxNew}

\* The parse cache alone: no feed is configured, texts are parsed through
\* cache_parser.
InitLru ==
    /\ Imported
    /\ Construct({}, {1})
    /\ max_feeds = 1
    /\ _num_keep = 0
NextLru == \E text \in LookupTexts : CacheParser(text)
SpecLru == InitLru /\ [][NextLru]_vars

\* Lines 271-344: a call FeedMixer.extract_meta(parsed, flag) of the static
\* method, for entries none of which makes it raise.
ExtractMeta(parsed, flag) ==
    /\ ~ExtractMetaRaises(parsed)
    /\ ret' = [op |-> "extract_meta", parsed |-> parsed, flag |-> flag,
               val |-> extract_meta(parsed, flag)]
    /\ UNCHANGED <<_feeds, _num_keep, config, cache, _mixed_entries, _error_urls, pc,
                   call, parsed_entries, pool, stored, requests>>

\* Entries as __fetch_entries hands them to extract_meta: with or without a
\* summary, empty or not, and with no, one or two content blocks, the first
\* with or without a value, empty or not.
SampleSummaries ==
    {EmptyDict} \cup {[summary |-> x] : x \in {"", "s1", "s2"}}
SampleBlocks ==
    {EmptyDict} \cup {[value |-> x] : x \in {"", "c1", "c2"}}
SampleContents ==
    {EmptyDict}
    \cup {[content |-> <<b>>] : b \in SampleBlocks}
    \cup {[content |-> <<b, [value |-> x]>>] : b \in SampleBlocks, x \in {"", "d1", "d2"}}
SampleEntries ==
    {[id |-> "e", feed_link |-> "http://f", feed_title |-> "F"] @@ x @@ y :
        x \in SampleSummaries, y \in SampleContents}

\* extract_meta alone, applied to one entry.
NextMeta == \E e \in SampleEntries, flag \in BOOLEAN : ExtractMeta(<<e>>, flag)
SpecMeta == InitLru /\ [][NextMeta]_vars

\* The FeedMixer with the contents of the parse cache.  Spec leaves the
\* cache as it is at import: what a run stores does not depend on it, since
\* a hit returns the feed a miss would parse, with annotations that lines
\* 247-254 assign again.
NextCached ==
    \/ mixed_entries
    \/ atom_feed
    \/ rss_feed
    \/ json_feed
    \/ error_urls
    \/ \E value \in FeedLists : SetFeeds(value)
    \/ \E value \in NumKeeps : SetNumKeep(value)
    \/ WorkerStart
    \/ \E i \in inflight : WorkerFinish(i)
    \/ \E i \in finished : ProcessFutureCached(i)
    \/ FinishFetch
InitCached == Imported /\ Construct({"a", "notitle", "down"}, 1..MaxThreads)
SpecCached == InitCached /\ [][NextCached]_vars

\* A caller with two URLs, one that is served and one that is down.
InitTwoUrls == Imported /\ Construct({"a", "down"}, 1..MaxThreads)
SpecTwoUrls == InitTwoUrls /\ [][Next]_vars

\* A caller that may construct the FeedMixer with max_threads = 0.
InitAnyThreads == Imported /\ Construct({"a", "down"}, 0..MaxThreads)
SpecAnyThreads == InitAnyThreads /\ [][Next]_vars

\* A caller whose feeds carry enclosures.
InitPodcast == Imported /\ Construct({"podcast", "down"}, 1..MaxThreads)
SpecPodcast == InitPodcast /\ [][Next]_vars

\* ================================================================= claims

\* A pipeline run has completed and nothing was assigned since: the stored
\* merged sequence and error map are those of a run over _feeds, _num_keep.
Completed == pc = "idle" /\ stored = "current"

Range(s) == {s[j] : j \in DOMAIN s}
Count(s, x) == Cardinality({j \in DOMAIN s : s[j] = x})
Min(a, b) == IF a < b THEN a ELSE b

\* The orders in which n futures can be yielded.
Orders(n) == {o \in [1..n -> 1..n] : \A x, y \in 1..n : o[x] = o[y] => x = y}

\* The source's side of a URL: whether its fetch succeeds, and what the
\* parser makes of its text.
FetchOk(url) == SessGet(url).ok
ParsedFeed(url) == FeedparserParse(SessGet(url).text)
ParseOk(url) == ~(Len(ParsedFeed(url).entries) = 0 /\ ParsedFeed(url).bozo)

\* The parser's entry that a merged entry was built from.
AllRawEntries ==
    UNION {Range(ParsedFeed(u).entries) : u \in {x \in URLS : FetchOk(x)}}
RawOf(m) == CHOOSE e \in AllRawEntries : e.id = m.unique_id

\* How many merged entries were built from raw entry e.
Merged(e) == Cardinality({j \in DOMAIN _mixed_entries : _mixed_entries[j].unique_id = e.id})

\* C1: after a run, each source whose fetch and parse succeeded, with m
\* parsed entries, has exactly its first min(k, m) entries in the merge when
\* num_keep = k >= 1, and all m when num_keep < 1 (once per occurrence of
\* its URL in the list of feeds).
C1_FirstEntriesEnterMerge ==
    Completed =>
        \A u \in Range(_feeds) :
            (FetchOk(u) /\ ParseOk(u)) =>
                LET es == ParsedFeed(u).entries
                    kept == IF _num_keep >= 1 THEN Min(_num_keep, Len(es)) ELSE Len(es)
                IN \A j \in 1..Len(es) :
                       Merged(es[j]) = IF j <= kept THEN Count(_feeds, u) ELSE 0

\* The merge key read literally, by presence: published if the entry has
\* it, else updated if it has it, else the empty string.
PresentKey(e) ==
    IF Has(e, "published") THEN e.published
    ELSE IF Has(e, "updated") THEN e.updated
    ELSE EmptyStr

\* The merge key with an empty value counted as missing.
NonEmptyKey(e) ==
    IF Has(e, "published") /\ e.published # EmptyStr THEN e.published
    ELSE IF Has(e, "updated") /\ e.updated # EmptyStr THEN e.updated
    ELSE EmptyStr

\* C2 as stated: after a run the merged sequence is non-increasing in
\* (published, else updated, else ""), and every entry that has neither
\* field comes after every entry that has one.
C2_SortedByPresentKey ==
    Completed =>
        \A i, j \in DOMAIN _mixed_entries :
            i < j =>
                LET x == RawOf(_mixed_entries[i])
                    y == RawOf(_mixed_entries[j])
                IN /\ PresentKey(x) >= PresentKey(y)
                   /\ ~(~(Has(x, "published") \/ Has(x, "updated"))
                        /\ (Has(y, "published") \/ Has(y, "updated")))

\* C2 amended: after a run the merged sequence is non-increasing in
\* (published if non-empty, else updated if non-empty, else ""), and every
\* entry with no non-empty published or updated comes after every entry
\* that has one.
C2_SortedByNonEmptyKey ==
    Completed =>
        \A i, j \in DOMAIN _mixed_entries :
            i < j =>
                LET x == RawOf(_mixed_entries[i])
                    y == RawOf(_mixed_entries[j])
                IN /\ NonEmptyKey(x) >= NonEmptyKey(y)
                   /\ ~(NonEmptyKey(x) = EmptyStr /\ NonEmptyKey(y) # EmptyStr)

\* A run has merged an entry with a published date, one with only an
\* updated date, one whose published is empty, and one with no date.
C2_Witness ==
    /\ Completed
    /\ \E i, j \in DOMAIN _mixed_entries :
          /\ i < j
          /\ NonEmptyKey(RawOf(_mixed_entries[i])) > NonEmptyKey(RawOf(_mixed_entries[j]))
          /\ NonEmptyKey(RawOf(_mixed_entries[j])) = EmptyStr
    /\ \E i \in DOMAIN _mixed_entries :
          LET x == RawOf(_mixed_entries[i])
          IN Has(x, "published") /\ x.published = EmptyStr /\ Has(x, "updated")
    /\ \E i \in DOMAIN _mixed_entries :
          ~Has(RawOf(_mixed_entries[i]), "published")
          /\ Has(RawOf(_mixed_entries[i]), "updated")

\* C3: whatever the order in which the fetches of a run completed, the
\* merged sequence is the one obtained when they complete in list order,
\* and so is the same for every order of completion.
ListOrder(n) == [i \in 1..n |-> i]
C3_SameForEveryCompletionOrder ==
    Completed =>
        _mixed_entries =
            FetchEntries(_feeds, ListOrder(Len(_feeds)), _num_keep, prefer_summary).mixed

\* A source that fails to fetch or to parse.
Failing(u) == ~FetchOk(u) \/ ~ParseOk(u)
IsHealthy(u) == ~Failing(u)
Healthy(feeds) == SelectSeq(feeds, IsHealthy)

\* C4: after a run, every source whose fetch or parse failed has a record
\* in error_urls under its URL and no entry in the merged sequence, and the
\* merged sequence is one that a run over the other sources alone gives.
C4_FailingSourceIsolated ==
    Completed =>
        /\ \A u \in Range(_feeds) : Failing(u) => u \in DOMAIN _error_urls
        /\ \A j \in DOMAIN _mixed_entries :
               \E u \in Range(_feeds) :
                   /\ ~Failing(u)
                   /\ RawOf(_mixed_entries[j]) \in Range(ParsedFeed(u).entries)
        /\ LET others == Healthy(_feeds) IN
           _mixed_entries \in
               {FetchEntries(others, o, _num_keep, prefer_summary).mixed :
                    o \in Orders(Len(others))}

\* A run over a source that failed to fetch, one that failed to parse and
\* one that gave entries has completed.
C4_Witness ==
    /\ Completed
    /\ Len(_mixed_entries) > 0
    /\ \E u \in Range(_feeds) : ~FetchOk(u)

\* A second shape of the same case: the failure is a parse failure.
C4_WitnessParse ==
    /\ Completed
    /\ Len(_mixed_entries) > 0
    /\ \E u \in Range(_feeds) : FetchOk(u) /\ ~ParseOk(u)

\* A read of the merged sequence by one of the four operations.
ReadsMixed == \E op \in ReadOps : ReadMixed(op)

\* The values a run over the current configuration can return to call.
RunReturns ==
    {Returned(call, FetchEntries(_feeds, o, _num_keep, prefer_summary).mixed) :
         o \in Orders(Len(_feeds))}

\* C5: when feeds or num_keep has been assigned and no run has completed
\* since, a read of mixed_entries (or a rendering call) returns nothing
\* stored: it starts a run over the current list of feeds, and what the run
\* returns is a result of the pipeline on the current configuration.
C5_ReadAfterAssignmentRefetches ==
    [][ /\ (ReadsMixed /\ stored # "current") =>
               /\ pc' = "fetching"
               /\ queue' = [i \in 1..Len(_feeds) |-> i]
               /\ ret' = NoRet
        /\ (pc = "fetching" /\ pc' = "idle") => ret' \in RunReturns
      ]_vars

\* A run is in progress that a read started after an assignment had
\* invalidated the result of an earlier run, and it has collected entries.
C5_Witness ==
    /\ pc = "fetching"
    /\ stored = "stale"
    /\ Len(parsed_entries) > 0

\* C6: once a run has completed and nothing was assigned since, a read of
\* mixed_entries (or a rendering call) returns the stored result and
\* submits no fetch, whatever the run's outcome was.
C6_ReadInFetchedReturnsStored ==
    [][ \A op \in ReadOps :
            (ReadMixed(op) /\ stored = "current") =>
                /\ pc' = "idle"
                /\ UNCHANGED pool
                /\ ret' = Returned(op, _mixed_entries)
      ]_vars

\* C7 as stated: in the Unfetched state a read of error_urls runs the
\* pipeline.
C7_ErrorUrlsRunsPipeline ==
    [][ (error_urls /\ stored # "current") => pc' = "fetching" ]_vars

\* C7 amended: in the Unfetched state a read of error_urls runs nothing: it
\* submits no fetch, changes neither the stored merged sequence nor the
\* error map, and returns the error map as stored.
C7_ErrorUrlsReturnsStoredMap ==
    [][ (error_urls /\ stored # "current") =>
            /\ pc' = "idle"
            /\ UNCHANGED <<pool, _error_urls, _mixed_entries, stored>>
            /\ ret' = [op |-> "error_urls", val |-> _error_urls]
      ]_vars

\* error_urls was read in the Unfetched state and returned a record for a
\* URL that is not in the current list of feeds.
C7_Witness ==
    /\ stored = "stale"
    /\ pc = "idle"
    /\ ret.op = "error_urls"
    /\ \E u \in DOMAIN ret.val : u \notin Range(_feeds)

\* C8: after construction nothing is submitted or in flight, and a future
\* is submitted or started only for a read of mixed_entries or a call of
\* atom_feed, rss_feed or json_feed.
C8_FetchOnlyOnRead ==
    /\ (queue = << >> /\ inflight = {})
    /\ [][ (queue' # queue \/ inflight' # inflight) =>
               (pc' = "fetching" /\ call' \in ReadOps) ]_vars

\* A fetch is in flight for a call of json_feed made after an assignment.
C8_Witness ==
    /\ inflight # {}
    /\ call = "json_feed"
    /\ stored = "stale"

\* The exception recorded for u, if any.
Recorded(u) == u \in DOMAIN _error_urls
RecordedAs(u, exc) == Recorded(u) /\ _error_urls[u] = exc

\* C9: after a run, a source has a ParseError record exactly when its fetch
\* succeeded and its parsed feed has no entries and the bozo flag; a source
\* whose fetch failed has a record of another kind; a parsed feed with no
\* entries and no bozo flag, or with entries and the bozo flag, has no
\* record.
C9_ParseErrorClassification ==
    Completed =>
        \A u \in Range(_feeds) :
            /\ RecordedAs(u, "ParseError") <=>
                   (FetchOk(u) /\ Len(ParsedFeed(u).entries) = 0 /\ ParsedFeed(u).bozo)
            /\ ~FetchOk(u) => (Recorded(u) /\ ~RecordedAs(u, "ParseError"))
            /\ (FetchOk(u) /\ Len(ParsedFeed(u).entries) = 0 /\ ~ParsedFeed(u).bozo)
                   => ~Recorded(u)
            /\ (FetchOk(u) /\ Len(ParsedFeed(u).entries) > 0 /\ ParsedFeed(u).bozo)
                   => ~Recorded(u)

\* C10: at most max_threads fetches are in flight, and a queued future
\* starts only while fewer than max_threads are, as the head of the queue.
C10_AtMostMaxThreadsInFlight ==
    /\ [](Cardinality(inflight) <= max_threads)
    /\ [][ (inflight' \ inflight # {}) =>
               /\ Cardinality(inflight) < max_threads
               /\ inflight' \ inflight = {Head(queue)}
               /\ queue' = Tail(queue) ]_vars

\* max_threads fetches are in flight and another URL waits in the queue.
C10_Witness ==
    /\ Cardinality(inflight) = max_threads
    /\ queue # << >>

\* C11: a structurally invalid configuration (max_threads <= 0) is reported
\* when the FeedMixer is constructed and never deferred: no read of the
\* merged sequence and no rendering call raises the configuration error.
C11_NoConfigErrorAtRead ==
    ~(ret.op \in ReadOps /\ Has(ret, "exc") /\ ret.exc = "ValueError")

\* C12: whatever the outcome of each source, a read of mixed_entries or a
\* rendering call returns normally: it never raises.
C12_ReadReturnsNormally ==
    ~(ret.op \in ReadOps /\ Has(ret, "exc"))

\* The number of requests in a log of requests.
RECURSIVE TotalOf(_, _)
TotalOf(log, us) ==
    IF us = {} THEN 0
    ELSE LET u == CHOOSE x \in us : TRUE IN log[u] + TotalOf(log, us \ {u})
Total(log) == TotalOf(log, DOMAIN log)

\* value[0:min(len(value), max_feeds)]
FirstMaxFeeds(value) == SubSeq(value, 1, Min(Len(value), max_feeds))

\* C13: after construction and after every assignment to feeds or num_keep
\* the stored list of sources is the first min(len(value), max_feeds) URLs of
\* the assigned list in their order (for num_keep the list assigned is the
\* stored one), so it never has more than max_feeds URLs and no run makes
\* more than max_feeds requests.
C13_FeedsTruncatedToMaxFeeds ==
    /\ [](Len(_feeds) <= max_feeds /\ Total(requests) <= max_feeds)
    /\ [][/\ \A value \in FeedLists :
               SetFeeds(value) => _feeds' = FirstMaxFeeds(value)
          /\ \A value \in NumKeeps :
               SetNumKeep(value) => _feeds' = FirstMaxFeeds(_feeds)]_vars

\* A run, started after an assignment, has requested max_feeds sources,
\* fewer than the longest list assigned has.
C13_Witness ==
    /\ stored = "stale"
    /\ pc = "fetching"
    /\ max_feeds < MaxFeeds
    /\ Total(requests) = max_feeds

\* The texts held by parse cache c, and the feed stored for one of them.
HeldTexts(c) == {c[i].text : i \in 1..Len(c)}
StoredFeed(c, text) == c[CacheIndex(c, text)].feed
\* The text among held that was looked up least recently according to r.
LeastRecent(held, r) ==
    r[CHOOSE i \in 1..Len(r) :
        /\ r[i] \in held
        /\ \A j \in 1..(i - 1) : r[j] \notin held]

\* C14: the parse cache never holds more than CacheMaxSize (128) texts, each
\* once.  A lookup of a held text calls the parser 0 times, returns the
\* stored feed and changes nothing that is held.  A lookup of a text not held
\* calls the parser once, returns and stores its result; when the cache is
\* full the record dropped is that of the held text looked up least
\* recently, otherwise nothing is dropped.
C14_ParseCacheIsLru ==
    /\ [](/\ Len(parse_cache) <= CacheMaxSize
          /\ Cardinality(HeldTexts(parse_cache)) = Len(parse_cache))
    /\ [][ret'.op = "cache_parser" =>
          LET text == recency'[Len(recency')]
              held == HeldTexts(parse_cache)
          IN IF text \in held
             THEN /\ parse_calls' = 0
                  /\ ret'.val = StoredFeed(parse_cache, text)
                  /\ Range(parse_cache') = Range(parse_cache)
             ELSE /\ parse_calls' = 1
                  /\ ret'.val = FeedparserParse(text)
                  /\ Range(parse_cache') =
                        {x \in Range(parse_cache) :
                            \/ Len(parse_cache) < CacheMaxSize
                            \/ x.text # LeastRecent(held, recency)}
                        \cup {[text |-> text, feed |-> FeedparserParse(text)]}]_vars

\* The cache is full, the first text was looked up again and is held, and
\* the lookup of a new text has dropped the second text.
C14_Witness ==
    /\ Len(parse_cache) = CacheMaxSize
    /\ TextOf(1) \in HeldTexts(parse_cache)
    /\ TextOf(2) \notin HeldTexts(parse_cache)
    /\ parse_cache[Len(parse_cache)].text = TextOf(CacheMaxSize + 1)
    /\ parse_calls = 1

\* The summary of entry e and the value of its first content block, None
\* when it has none.
SummaryOf(e) == IF Has(e, "summary") THEN e.summary ELSE NoneVal
FirstContentValue(e) ==
    IF Has(e, "content") /\ Has(e.content[1], "value") THEN e.content[1].value
    ELSE NoneVal
PresentNonEmpty(v) == v # NoneVal /\ v # ""
\* Entry e without the content blocks after the first.
FirstBlockOnly(e) ==
    IF Has(e, "content") THEN [e EXCEPT !.content = <<e.content[1]>>] ELSE e

\* C15: the description of a merged entry is the summary when prefer_summary
\* is true and the summary is present and non-empty, otherwise the value of
\* the first content block; with prefer_summary false it is the value of the
\* first content block when that is present and non-empty, otherwise the
\* summary.  The content blocks after the first do not influence it.
C15_DescriptionResolution ==
    ret.op = "extract_meta" =>
        LET e == ret.parsed[1]
            description == ret.val[1].description
        IN /\ description =
                (IF ret.flag
                 THEN IF PresentNonEmpty(SummaryOf(e)) THEN SummaryOf(e)
                      ELSE FirstContentValue(e)
                 ELSE IF PresentNonEmpty(FirstContentValue(e)) THEN FirstContentValue(e)
                      ELSE SummaryOf(e))
           /\ description = extract_meta(<<FirstBlockOnly(e)>>, ret.flag)[1].description

\* With prefer_summary false, an entry with a summary, an empty first
\* content block and a non-empty second one is described by its summary.
C15_Witness ==
    /\ ret.op = "extract_meta"
    /\ ~ret.flag
    /\ PresentNonEmpty(SummaryOf(ret.parsed[1]))
    /\ Has(ret.parsed[1], "content")
    /\ Len(ret.parsed[1].content) = 2
    /\ FirstContentValue(ret.parsed[1]) = ""
    /\ ret.parsed[1].content[2].value = "d1"
    /\ ret.val[1].description = SummaryOf(ret.parsed[1])

\* The metadata of the feed that the parser's entry e belongs to.
FeedOf(e) ==
    ParsedFeed(CHOOSE u \in {x \in URLS : FetchOk(x)} :
                   e \in Range(ParsedFeed(u).entries)).feed
AuthorFields == {"author_email", "author_name", "author_link"}
\* The author fields that author detail d gives.
AuthorFrom(m, d) ==
    /\ AuthorFields \subseteq DOMAIN m
    /\ m.author_email = Get(d, "email")
    /\ m.author_name = Get(d, "name")
    /\ m.author_link = Get(d, "href")

\* C16: the author fields of a merged entry come from the author detail of
\* its own entry when that has one (never from the feed's then), otherwise
\* from the author detail of its feed when that has one, and otherwise the
\* merged entry has no author field.
C16_AuthorInheritance ==
    \A j \in DOMAIN _mixed_entries :
        LET m == _mixed_entries[j]
            e == RawOf(m)
            feed == FeedOf(e)
        IN IF Has(e, "author_detail") THEN AuthorFrom(m, e.author_detail)
           ELSE IF Has(feed, "author_detail") THEN AuthorFrom(m, feed.author_detail)
           ELSE AuthorFields \cap DOMAIN m = {}

\* A run has merged an entry with its own author detail in a feed that has
\* another one, an entry without in that feed, and an entry of a feed that
\* has none.
C16_Witness ==
    /\ Completed
    /\ \E j \in DOMAIN _mixed_entries :
          /\ Has(RawOf(_mixed_entries[j]), "author_detail")
          /\ Has(FeedOf(RawOf(_mixed_entries[j])), "author_detail")
          /\ _mixed_entries[j].author_name = "Al"
    /\ \E j \in DOMAIN _mixed_entries :
          /\ ~Has(RawOf(_mixed_entries[j]), "author_detail")
          /\ Has(FeedOf(RawOf(_mixed_entries[j])), "author_detail")
          /\ _mixed_entries[j].author_name = "Ann"
    /\ \E j \in DOMAIN _mixed_entries :
          /\ ~Has(RawOf(_mixed_entries[j]), "author_detail")
          /\ ~Has(FeedOf(RawOf(_mixed_entries[j])), "author_detail")

\* C17: an assignment to feeds or num_keep discards the stored error map
\* with the merged sequence: a read of error_urls between the assignment
\* and the next run returns no error record of the run made under the
\* previous configuration.
C17_AssignmentDiscardsErrorMap ==
    (stored = "stale" /\ pc = "idle" /\ ret.op = "error_urls") => ret.val = EmptyDict

\* C18: a run commits atomically: while it is in progress, from its first
\* step on, the stored merged sequence and the stored error map are what they
\* were before it started; they change only in the step that completes it.
C18_RunCommitsAtomically ==
    [][pc' = "fetching" => UNCHANGED <<_mixed_entries, _error_urls>>]_vars

\* C19: a run never modifies a parsed feed held in the parse cache: every
\* feed the cache holds is what the parser returned for its text.
C19_CachedFeedsUnmodified ==
    \A i \in 1..Len(parse_cache) :
        parse_cache[i].feed = FeedparserParse(parse_cache[i].text)

\* What a run with the parse cache stores is what a run that parses every
\* text afresh stores, for some order of completion.
CacheTransparent ==
    Completed =>
        \E order \in Orders(Len(_feeds)) :
            LET fresh == FetchEntries(_feeds, order, _num_keep, prefer_summary)
            IN _mixed_entries = fresh.mixed /\ _error_urls = fresh.errors

\* C20: in one run every URL of the configured list is requested exactly
\* once for each place it has in the list, whether the request succeeds or
\* fails, never more, and the run completes only when every one of these
\* requests has been made and has returned or failed: nothing is queued, in
\* flight or waiting to be handled.
C20_EachSourceRequestedOnce ==
    /\ [](\A u \in DOMAIN requests : requests[u] <= Count(_feeds, u))
    /\ [][(pc = "fetching" /\ pc' = "idle") =>
            /\ DOMAIN requests = Range(_feeds)
            /\ \A u \in Range(_feeds) : requests[u] = Count(_feeds, u)
            /\ queue = << >> /\ inflight = {} /\ finished = {}]_vars

\* A run about to complete has made one request for a URL whose fetch
\* failed and one for a URL whose fetch succeeded.
C20_Witness ==
    /\ pc = "fetching"
    /\ queue = << >> /\ inflight = {} /\ finished = {}
    /\ \E u \in DOMAIN requests : ~FetchOk(u) /\ requests[u] = 1 /\ Has(_error_urls, u)
    /\ \E u \in DOMAIN requests : FetchOk(u) /\ requests[u] = 1
====
